---- MODULE Spec2Model ----
(***************************************************************************)
(* Model of src/firecrawl_client.py: the FirecrawlMCPClient session        *)
(* (connect / disconnect), its four facade operations, and the result      *)
(* normalizer and persistence helpers (save_to_file, save_to_table,        *)
(* _make_serializable, _extract_text_content).                             *)
(***************************************************************************)
EXTENDS Integers, Sequences, FiniteSets, TLC

VARIABLES
    phase,      \* "new" | "connect_failed" | "connected" | "disconnected"
    attrs,      \* attributes set on the client object: subset of {"stdio_client", "session"}
    chan,       \* the stdio_client context manager: "absent" | "created" | "entered" | "exited"
    sess,       \* the ClientSession context manager:  "absent" | "created" | "entered" | "exited"
    improper,   \* resources on which __aexit__ was called while they were not entered
    discRaised, \* TRUE once a disconnect() call raised
    nInvoked,   \* facade operations invoked so far
    nCalls,     \* session.call_tool requests issued so far
    requests,   \* the call_tool requests the last operation issued, in order
    op,         \* the last operation run ("none" before any)
    arg,        \* the response value / data the last operation worked on
    opts,       \* the last operation's flags and injected environment faults
    ret,        \* the last operation's return value
    raised,     \* TRUE iff the last operation let an exception escape
    writes,     \* the file writes the last operation attempted, in order
    log,        \* the messages the last operation printed
    clock,      \* the wall clock datetime.now() reads, in ticks
    saved,      \* the named saves made so far: [op, given, at, json, md]
    run         \* the entry point being run: its position, inputs and event trace

vars == <<phase, attrs, chan, sess, improper, discRaised, nInvoked, nCalls,
          requests, op, arg, opts, ret, raised, writes, log, clock, saved, run>>

(***************************************************************************)
(* Bounds.                                                                 *)
(***************************************************************************)
MaxLen == 2     \* longest content sequence of a response
MaxOps == 2     \* facade operations invoked in one session
MaxUrls == 2    \* most URLs handed to one firecrawl_extract
MaxTicks == 4   \* how far the wall clock advances
MaxSaves == 2   \* named saves made in one run
TicksPerSecond == 2   \* clock ticks in one second
MaxTurns == 2   \* passes of the interactive menu loop that run an operation

\* firecrawl_scrape calls in debug_main
DebugScrapes == 4

(***************************************************************************)
(* Python values.  Every value is a record [tag, v] with v a sequence:     *)
(*   str  : the characters (atoms); "\n" is the newline                    *)
(*   num  : <<n>>                                                          *)
(*   none : <<>>                                                           *)
(*   list : the items                                                      *)
(*   obj  : an attribute-bearing object, v its __dict__ in insertion order *)
(*          as a sequence of [k, v] entries                                *)
(*   map  : a dict, v its entries in insertion order                       *)
(***************************************************************************)
S(chars) == [tag |-> "str", v |-> chars]
N(n) == [tag |-> "num", v |-> <<n>>]
NoneV == [tag |-> "none", v |-> <<>>]
L(items) == [tag |-> "list", v |-> items]
O(fields) == [tag |-> "obj", v |-> fields]
M(fields) == [tag |-> "map", v |-> fields]
F(key, val) == [k |-> key, v |-> val]

IsStr(x) == x.tag = "str"

Keys(x) == {x.v[i].k : i \in 1..Len(x.v)}

\* hasattr(obj, name): only attribute-bearing objects carry the probed fields
HasAttr(x, name) == x.tag = "obj" /\ name \in Keys(x)

\* getattr(obj, name), for an object that has it
Attr(x, name) == x.v[CHOOSE i \in 1..Len(x.v) : x.v[i].k = name].v

\* hasattr(obj, '__dict__')
HasDict(x) == x.tag = "obj"

\* hasattr(obj, '__iter__'): strings, lists and dicts are iterable
HasIter(x) == x.tag \in {"str", "list", "map"}

\* what `for item in obj` yields: a dict yields its KEYS, a string its characters
Iter(x) ==
    CASE x.tag = "list" -> x.v
      [] x.tag = "map"  -> [i \in 1..Len(x.v) |-> S(<<x.v[i].k>>)]
      [] x.tag = "str"  -> [i \in 1..Len(x.v) |-> S(<<x.v[i]>>)]
      [] OTHER          -> <<>>

\* Python truthiness (`if x:` / `not x`)
Truthy(x) ==
    CASE x.tag = "none" -> FALSE
      [] x.tag = "num"  -> x.v[1] # 0
      [] x.tag = "obj"  -> TRUE
      [] OTHER          -> x.v # <<>>

\* key.startswith('_')
IsPrivate(key) == key \in {"_meta", "_raw"}

(***************************************************************************)
(* _make_serializable                                                      *)
(***************************************************************************)
RECURSIVE make_serializable(_)
RECURSIVE SerializeFields(_)
RECURSIVE SerializeItems(_)

\* the dict comprehension over obj.__dict__, skipping keys that start with '_'
SerializeFields(fs) ==
    IF fs = <<>> THEN <<>>
    ELSE IF IsPrivate(Head(fs).k) THEN SerializeFields(Tail(fs))
    ELSE <<F(Head(fs).k, make_serializable(Head(fs).v))>> \o SerializeFields(Tail(fs))

\* [self._make_serializable(item) for item in obj]
SerializeItems(items) ==
    IF items = <<>> THEN <<>>
    ELSE <<make_serializable(Head(items))>> \o SerializeItems(Tail(items))

make_serializable(x) ==
    IF HasDict(x) THEN M(SerializeFields(x.v))
    ELSE IF HasIter(x) /\ ~IsStr(x) THEN L(SerializeItems(Iter(x)))
    ELSE x

(***************************************************************************)
(* _extract_text_content                                                   *)
(***************************************************************************)
RECURSIVE extract_text(_)
RECURSIVE ExtractEach(_)

\* the loop `for item in ...: extract_text(item, level + 1)`
ExtractEach(items) ==
    IF items = <<>> THEN <<>>
    ELSE extract_text(Head(items)) \o ExtractEach(Tail(items))

\* what one call of the nested extract_text appends to text_parts
extract_text(x) ==
    IF HasAttr(x, "text") THEN <<Attr(x, "text")>>
    ELSE IF HasAttr(x, "content") THEN
        IF IsStr(Attr(x, "content")) THEN <<Attr(x, "content")>>
        ELSE IF HasIter(Attr(x, "content")) THEN ExtractEach(Iter(Attr(x, "content")))
        ELSE <<>>
    ELSE IF HasIter(x) /\ ~IsStr(x) THEN ExtractEach(Iter(x))
    ELSE IF IsStr(x) THEN <<x>>
    ELSE <<>>

RECURSIVE JoinChars(_)
\* '\n\n'.join(parts) on the characters of string parts
JoinChars(parts) ==
    IF Len(parts) = 0 THEN <<>>
    ELSE IF Len(parts) = 1 THEN parts[1].v
    ELSE parts[1].v \o <<"\n", "\n">> \o JoinChars(Tail(parts))

\* _extract_text_content: [exc, value]; str.join raises TypeError on a part
\* that is not a string
extract_text_content(data) ==
    LET parts == extract_text(data) IN
    IF parts = <<>> THEN [exc |-> FALSE, value |-> NoneV]
    ELSE IF \E i \in 1..Len(parts) : ~IsStr(parts[i]) THEN [exc |-> TRUE, value |-> NoneV]
    ELSE [exc |-> FALSE, value |-> S(JoinChars(parts))]

(***************************************************************************)
(* save_to_file                                                            *)
(***************************************************************************)
RECURSIVE JsonSerializable(_)
\* json.dump accepts str, numbers, None, lists and dicts of those; any other
\* object makes it raise TypeError
JsonSerializable(x) ==
    CASE x.tag \in {"str", "num", "none"} -> TRUE
      [] x.tag = "list" -> \A i \in 1..Len(x.v) : JsonSerializable(x.v[i])
      [] x.tag = "map"  -> \A i \in 1..Len(x.v) : JsonSerializable(x.v[i].v)
      [] OTHER          -> FALSE

Write(file, ok, content) == [file |-> file, ok |-> ok, content |-> content]

\* the value handed to json.dump: only a top-level object with __dict__ is reduced
JsonPayload(data) == IF HasDict(data) THEN make_serializable(data) ELSE data

\* the tuple save_to_file returns
SavedPaths(md) == L(<<S(<<"json_path">>), IF md THEN S(<<"md_path">>) ELSE NoneV>>)

\* save_to_file(data), with the faults the environment injects: "mkdir" (the
\* output directory cannot be created), "json" / "md" (open or write fails).
\* Result: [exc, ret, writes, log].
save_to_file(data, fault) ==
    IF "mkdir" \in fault
    THEN [exc |-> TRUE, ret |-> NoneV, writes |-> <<>>, log |-> {}]
    ELSE
      LET payload == JsonPayload(data)
          jsonOk  == "json" \notin fault /\ JsonSerializable(payload)
          jsonW   == Write("json", jsonOk, IF jsonOk THEN payload ELSE NoneV)
          jsonLog == IF jsonOk THEN {"saved_json"} ELSE {"error_saving_json"}
          text    == extract_text_content(data)
          mdOk    == "md" \notin fault
          mdW     == Write("md", mdOk, IF mdOk THEN text.value ELSE NoneV)
          mdLog   == IF mdOk THEN {"saved_markdown"} ELSE {"error_saving_markdown"}
      IN  IF text.exc
          THEN [exc |-> TRUE, ret |-> NoneV, writes |-> <<jsonW>>, log |-> jsonLog]
          ELSE IF Truthy(text.value)
          THEN [exc |-> FALSE, ret |-> SavedPaths(TRUE),
                writes |-> <<jsonW, mdW>>, log |-> jsonLog \cup mdLog]
          ELSE [exc |-> FALSE, ret |-> SavedPaths(FALSE),
                writes |-> <<jsonW>>, log |-> jsonLog]

(***************************************************************************)
(* save_to_table                                                           *)
(***************************************************************************)
\* [item.text for item in result.content] succeeds iff content is iterable and
\* every item it yields has a text attribute
TextsReadable(content) ==
    HasIter(content) /\ \A i \in 1..Len(Iter(content)) : HasAttr(Iter(content)[i], "text")

\* mutant: the rows are collected in reverse order
ItemTextsReversed(content) ==
    [i \in 1..Len(Iter(content)) |->
        Attr(Iter(content)[Len(Iter(content)) + 1 - i], "text")]

\* data = [item.text for item in result.content]
ItemTexts(content) == [i \in 1..Len(Iter(content)) |-> Attr(Iter(content)[i], "text")]

\* pd.DataFrame(data) of a list of scalars: one column, one row per element
DataFrame(data) == [tag |-> "table", v |-> [i \in 1..Len(data) |-> <<data[i]>>]]

\* mutant: no try/except around the item loop, the AttributeError escapes
save_to_table_uncaught(result, format, fault) ==
    IF ~HasAttr(result, "content") \/ ~Truthy(Attr(result, "content"))
    THEN [exc |-> FALSE, ret |-> NoneV, writes |-> <<>>, log |-> {"no_content"}]
    ELSE IF ~TextsReadable(Attr(result, "content"))
    THEN [exc |-> TRUE, ret |-> NoneV, writes |-> <<>>, log |-> {}]
    ELSE
      LET df == DataFrame(ItemTexts(Attr(result, "content")))
          ok == "table" \notin fault
          file == IF format = "csv" THEN "csv" ELSE "xlsx"
      IN  IF format \in {"csv", "excel"}
          THEN [exc |-> FALSE, ret |-> NoneV,
                writes |-> <<Write(file, ok, IF ok THEN df ELSE NoneV)>>,
                log |-> IF ok THEN {"saved_table"} ELSE {"failed_to_save_table"}]
          ELSE [exc |-> FALSE, ret |-> NoneV, writes |-> <<>>,
                log |-> {"unsupported_format"}]

\* save_to_table(result, filename, format), with fault "table" (the writer
\* fails).  Result: [exc, ret, writes, log].
save_to_table(result, format, fault) ==
    IF ~HasAttr(result, "content") \/ ~Truthy(Attr(result, "content"))
    THEN [exc |-> FALSE, ret |-> NoneV, writes |-> <<>>, log |-> {"no_content"}]
    ELSE IF ~TextsReadable(Attr(result, "content"))
    THEN [exc |-> FALSE, ret |-> NoneV, writes |-> <<>>, log |-> {"failed_to_save_table"}]
    ELSE
      LET df == DataFrame(ItemTexts(Attr(result, "content")))
          ok == "table" \notin fault
          file == IF format = "csv" THEN "csv" ELSE "xlsx"
      IN  IF format \in {"csv", "excel"}
          THEN [exc |-> FALSE, ret |-> NoneV,
                writes |-> <<Write(file, ok, IF ok THEN df ELSE NoneV)>>,
                log |-> IF ok THEN {"saved_table"} ELSE {"failed_to_save_table"}]
          ELSE [exc |-> FALSE, ret |-> NoneV, writes |-> <<>>,
                log |-> {"unsupported_format"}]

(***************************************************************************)
(* Bounded response values                                                 *)
(***************************************************************************)
SeqsUpTo(V, n) == UNION {[1..k -> V] : k \in 0..n}

Texts == {<<>>, <<"A">>, <<"B">>}
Strs == {S(t) : t \in Texts}
Prims == Strs \cup {N(0), N(1), NoneV}

\* values a text field holds: strings, and a number (the shell's preview
\* wraps item.text in str(), firecrawl_client.py line 675)
TextVals == Strs \cup {N(1)}

\* content items
Items ==
    {O(<<F("text", t)>>) : t \in TextVals}
    \cup {O(<<F("content", S(<<"A">>))>>),
          O(<<F("data", S(<<"A">>))>>),
          O(<<>>),
          O(<<F("_raw", N(1)), F("text", S(<<"B">>))>>),
          O(<<F("text", S(<<"A">>)), F("content", S(<<"B">>))>>),
          M(<<F("k", S(<<"A">>))>>),
          M(<<F("k", N(1))>>),
          S(<<"A">>),
          N(1)}

Lists == {L(s) : s \in SeqsUpTo(Items, MaxLen)}

Contents ==
    Lists \cup Prims
    \cup {O(<<F("text", S(<<"A">>))>>), M(<<F("k", S(<<"A">>))>>), M(<<>>)}

\* every response value the persistence helpers are applied to
Responses ==
    {O(<<F("content", c)>>) : c \in Contents}
    \cup {O(<<F("_meta", NoneV), F("content", c), F("isError", N(0))>>) :
            c \in {L(<<O(<<F("text", t)>>)>>) : t \in TextVals}}
    \cup {O(<<F("text", S(<<"A">>)), F("content", L(<<O(<<F("text", S(<<"B">>))>>)>>))>>)}
    \cup Lists \cup Items \cup Prims
    \cup {M(<<F("k", x)>>) : x \in Items \cup Prims}
    \cup {M(<<>>), M(<<F("text", S(<<"A">>))>>), M(<<F("j", N(1)), F("k", S(<<"B">>))>>)}

(***************************************************************************)
(* The persistence helpers applied to a response (SaveSpec)                *)
(***************************************************************************)
NoOpts == [save |-> FALSE, excel |-> FALSE, format |-> "", fault |-> {},
           callOk |-> TRUE, urls |-> <<>>]

\* no entry point has been started
NoIn == [key |-> TRUE, found |-> TRUE, failAt |-> "none", listing |-> "catalog",
         catalog |-> L(<<>>), callOks |-> <<>>, r |-> NoneV, fault |-> {},
         raiseS |-> FALSE, raiseC |-> FALSE]

\* the answers to the extract flow's prompts
NoAnswers == [use_schema |-> FALSE, schema_input |-> <<>>, save |-> FALSE, excel |-> FALSE]

NoRun == [entry |-> "none", pc |-> "idle", in |-> NoIn, trace |-> <<>>,
          escaped |-> "none", caught |-> "none", printed |-> {}, turns |-> 0,
          last |-> "none", called |-> FALSE, schema |-> NoneV, answers |-> NoAnswers]

\* nothing named has been saved and no entry point runs
EnvIdle == clock = 0 /\ saved = <<>> /\ run = NoRun

EnvUnchanged == UNCHANGED <<clock, saved, run>>

SessionIdle ==
    /\ phase = "new" /\ attrs = {} /\ chan = "absent" /\ sess = "absent"
    /\ improper = {} /\ discRaised = FALSE /\ nInvoked = 0 /\ nCalls = 0
    /\ EnvIdle

SessionUnchanged ==
    /\ UNCHANGED <<phase, attrs, chan, sess, improper, discRaised, nInvoked, nCalls, requests>>
    /\ EnvUnchanged

SaveInit ==
    /\ SessionIdle
    /\ requests = <<>>
    /\ op = "none" /\ arg \in Responses /\ opts = NoOpts
    /\ ret = NoneV /\ raised = FALSE /\ writes = <<>> /\ log = {}

\* a direct call save_to_file(arg)
CallSaveToFile ==
    /\ op = "none"
    /\ \E fault \in SUBSET {"mkdir", "json", "md"} :
         LET r == save_to_file(arg, fault) IN
         /\ op' = "save_to_file"
         /\ opts' = [NoOpts EXCEPT !.fault = fault]
         /\ ret' = r.ret /\ raised' = r.exc /\ writes' = r.writes /\ log' = r.log
    /\ UNCHANGED arg
    /\ SessionUnchanged

\* a direct call save_to_table(arg, filename, format)
CallSaveToTable ==
    /\ op = "none"
    /\ \E format \in {"csv", "excel", "json"}, fault \in SUBSET {"table"} :
         LET r == save_to_table(arg, format, fault) IN
         /\ op' = "save_to_table"
         /\ opts' = [NoOpts EXCEPT !.fault = fault, !.format = format]
         /\ ret' = r.ret /\ raised' = r.exc /\ writes' = r.writes /\ log' = r.log
    /\ UNCHANGED arg
    /\ SessionUnchanged

\* a call _make_serializable(arg)
CallMakeSerializable ==
    /\ op = "none"
    /\ op' = "make_serializable"
    /\ ret' = make_serializable(arg)
    /\ UNCHANGED <<arg, opts, raised, writes, log>>
    /\ SessionUnchanged

\* a call _extract_text_content(arg)
CallExtractTextContent ==
    /\ op = "none"
    /\ op' = "extract_text_content"
    /\ ret' = extract_text_content(arg).value
    /\ raised' = extract_text_content(arg).exc
    /\ UNCHANGED <<arg, opts, writes, log>>
    /\ SessionUnchanged

SaveNext ==
    \/ CallSaveToFile
    \/ CallSaveToTable
    \/ CallMakeSerializable
    \/ CallExtractTextContent

SaveSpec == SaveInit /\ [][SaveNext]_vars

(***************************************************************************)
(* The session: connect and disconnect                                     *)
(***************************************************************************)
\* connect(), failing at step failAt ("none": it completes).  self.stdio_client
\* is assigned before its __aenter__ is awaited and self.session before its
\* __aenter__ is awaited, so a failed step leaves the attribute set on a
\* context manager that was never entered.
connect(failAt) ==
    [attrs |-> IF failAt = "open" THEN {"stdio_client"} ELSE {"stdio_client", "session"},
     chan  |-> IF failAt = "open" THEN "created" ELSE "entered",
     sess  |-> CASE failAt = "open"  -> "absent"
                 [] failAt = "enter" -> "created"
                 [] OTHER            -> "entered",
     exc   |-> failAt # "none"]

\* disconnect(): __aexit__ on every attribute that is set, session first.
\* Releasing a context manager that is not entered (never entered, or already
\* exited) is outside its contract: whether it raises (raiseS, raiseC) is the
\* library's choice.  An exception from the session's __aexit__ skips the
\* channel's.
disconnect(a, c, s, raiseS, raiseC) ==
    LET sessRel == "session" \in a
        sessBad == sessRel /\ s # "entered"
        excS    == sessBad /\ raiseS
        chanRel == ~excS /\ "stdio_client" \in a
        chanBad == chanRel /\ c # "entered"
        excC    == chanBad /\ raiseC
    IN  [sess |-> IF sessRel /\ s = "entered" THEN "exited" ELSE s,
         chan |-> IF chanRel /\ c = "entered" THEN "exited" ELSE c,
         improper |-> (IF sessBad THEN {"session"} ELSE {})
                        \cup (IF chanBad THEN {"channel"} ELSE {}),
         exc  |-> excS \/ excC]

(***************************************************************************)
(* The facade operations                                                   *)
(***************************************************************************)
\* the URLs a caller passes: one for crawl and scrape, a list for extract
UrlNames == <<"u1", "u2", "u3", "u4">>
Urls == {UrlNames[1]}
UrlLists == {SubSeq(UrlNames, 1, k) : k \in 0..MaxUrls}

\* responses the remote tool call returns
FacadeResponses ==
    {O(<<F("content", L(<<O(<<F("text", S(<<"A">>))>>), O(<<F("text", S(<<"B">>))>>)>>))>>),
     O(<<F("content", L(<<>>))>>),
     O(<<F("content", L(<<O(<<F("text", N(1))>>)>>))>>),
     O(<<F("content", S(<<"A">>))>>),
     O(<<F("_meta", NoneV), F("content", L(<<O(<<F("text", S(<<"A">>))>>)>>)), F("isError", N(0))>>),
     O(<<F("text", S(<<"A">>))>>),
     O(<<F("text", N(1))>>),
     O(<<>>)}

\* mutant: a failed request is issued a second time
call_tool_retry(tool, target, callOk, r) ==
    [requests |-> IF callOk THEN <<[tool |-> tool, target |-> target]>>
                  ELSE <<[tool |-> tool, target |-> target], [tool |-> tool, target |-> target]>>,
     ok |-> callOk, result |-> IF callOk THEN r ELSE NoneV]

\* await self.session.call_tool(tool, params): one request; it either returns
\* the response r or raises
call_tool(tool, target, callOk, r) ==
    [requests |-> <<[tool |-> tool, target |-> target]>>,
     ok |-> callOk, result |-> IF callOk THEN r ELSE NoneV]

Raise(reqs, w, lg) ==
    [exc |-> TRUE, ret |-> NoneV, writes |-> w, log |-> lg, requests |-> reqs]

Return(value, reqs, w, lg) ==
    [exc |-> FALSE, ret |-> value, writes |-> w, log |-> lg, requests |-> reqs]

\* mutant: no except clause, the exception escapes the operation
TryExceptPropagates(out, msg) == out

\* try: <body> / except Exception as e: print(msg); return None
TryExcept(out, msg) ==
    IF out.exc THEN [out EXCEPT !.exc = FALSE, !.ret = NoneV, !.log = @ \cup {msg}]
    ELSE out

\* result.text[:500] works on strings and lists only
Sliceable(x) == x.tag \in {"str", "list"}

crawl_url(url, callOk, r, save, fault) ==
    LET c == call_tool("crawl_url", <<url>>, callOk, r)
        s == save_to_file(c.result, fault)
    IN  TryExcept(
          IF ~c.ok THEN Raise(c.requests, <<>>, {})
          ELSE IF ~save THEN Return(c.result, c.requests, <<>>, {"crawled"})
          ELSE IF s.exc THEN Raise(c.requests, s.writes, s.log \cup {"crawled"})
          ELSE Return(c.result, c.requests, s.writes, s.log \cup {"crawled"}),
          "error_crawling")

\* after the call the debug prints slice result.text when the result has one
firecrawl_scrape(url, callOk, r, save, fault) ==
    LET c == call_tool("firecrawl_scrape", <<url>>, callOk, r)
        s == save_to_file(c.result, fault)
    IN  TryExcept(
          IF ~c.ok THEN Raise(c.requests, <<>>, {})
          ELSE IF HasAttr(c.result, "text") /\ ~Sliceable(Attr(c.result, "text"))
          THEN Raise(c.requests, <<>>, {})
          ELSE IF ~save THEN Return(c.result, c.requests, <<>>, {"scraped"})
          ELSE IF s.exc THEN Raise(c.requests, s.writes, s.log \cup {"scraped"})
          ELSE Return(c.result, c.requests, s.writes, s.log \cup {"scraped"}),
          "error_scraping")

\* all URLs go into the params of the one call; save_to_table runs first when
\* save_as_excel is set, then save_to_file when save_to_file is set
firecrawl_extract(urls, callOk, r, save, excel, fault) ==
    LET c == call_tool("firecrawl_extract", urls, callOk, r)
        t == IF excel THEN save_to_table(c.result, "excel", fault)
             ELSE [exc |-> FALSE, ret |-> NoneV, writes |-> <<>>, log |-> {}]
        s == save_to_file(c.result, fault)
    IN  TryExcept(
          IF ~c.ok THEN Raise(c.requests, <<>>, {})
          ELSE IF t.exc THEN Raise(c.requests, t.writes, t.log)
          ELSE IF ~save THEN Return(c.result, c.requests, t.writes, t.log)
          ELSE IF s.exc THEN Raise(c.requests, t.writes \o s.writes, t.log \cup s.log)
          ELSE Return(c.result, c.requests, t.writes \o s.writes,
                      t.log \cup s.log \cup {"result_saved"}),
          "error_during_extraction")

search(query, callOk, r, save, fault) ==
    LET c == call_tool("search", <<query>>, callOk, r)
        s == save_to_file(c.result, fault)
    IN  TryExcept(
          IF ~c.ok THEN Raise(c.requests, <<>>, {})
          ELSE IF ~save THEN Return(c.result, c.requests, <<>>, {"search_completed"})
          ELSE IF s.exc THEN Raise(c.requests, s.writes, s.log \cup {"search_completed"})
          ELSE Return(c.result, c.requests, s.writes, s.log \cup {"search_completed"}),
          "error_searching")

(***************************************************************************)
(* The client's life: connect, facade operations, disconnect (Spec)        *)
(***************************************************************************)
Init ==
    /\ SessionIdle
    /\ requests = <<>>
    /\ op = "none" /\ arg = NoneV /\ opts = NoOpts
    /\ ret = NoneV /\ raised = FALSE /\ writes = <<>> /\ log = {}

LastOpUnchanged ==
    /\ UNCHANGED <<requests, op, arg, opts, ret, raised, writes, log>>
    /\ EnvUnchanged

Connect ==
    /\ phase = "new"
    /\ \E failAt \in {"open", "enter", "initialize", "none"} :
         LET r == connect(failAt) IN
         /\ attrs' = r.attrs /\ chan' = r.chan /\ sess' = r.sess
         /\ phase' = IF r.exc THEN "connect_failed" ELSE "connected"
    /\ UNCHANGED <<improper, discRaised, nInvoked, nCalls>>
    /\ LastOpUnchanged

Disconnect ==
    /\ \E raiseS \in BOOLEAN, raiseC \in BOOLEAN :
         LET r == disconnect(attrs, chan, sess, raiseS, raiseC) IN
         /\ chan' = r.chan /\ sess' = r.sess
         /\ improper' = improper \cup r.improper
         /\ discRaised' = (discRaised \/ r.exc)
    /\ phase' = "disconnected"
    /\ UNCHANGED <<attrs, nInvoked, nCalls>>
    /\ LastOpUnchanged

\* the state a facade operation leaves
Finish(name, out, o, r) ==
    /\ op' = name /\ arg' = r /\ opts' = o
    /\ ret' = out.ret /\ raised' = out.exc /\ writes' = out.writes /\ log' = out.log
    /\ requests' = out.requests
    /\ nInvoked' = nInvoked + 1
    /\ nCalls' = nCalls + Len(out.requests)
    /\ UNCHANGED <<phase, attrs, chan, sess, improper, discRaised>>
    /\ EnvUnchanged

\* the entry points invoke the facade only between connect() and disconnect()
CanInvoke == phase = "connected" /\ nInvoked < MaxOps

ResultsOf(callOk) == IF callOk THEN FacadeResponses ELSE {NoneV}

FaultsOf(active, kinds) == IF active THEN SUBSET kinds ELSE {{}}

CrawlUrl ==
    /\ CanInvoke
    /\ \E url \in Urls, callOk \in BOOLEAN, save \in BOOLEAN :
       \E r \in ResultsOf(callOk), fault \in FaultsOf(callOk /\ save, {"mkdir", "json", "md"}) :
         Finish("crawl_url", crawl_url(url, callOk, r, save, fault),
                [NoOpts EXCEPT !.save = save, !.fault = fault, !.callOk = callOk,
                               !.urls = <<url>>], r)

FirecrawlScrape ==
    /\ CanInvoke
    /\ \E url \in Urls, callOk \in BOOLEAN, save \in BOOLEAN :
       \E r \in ResultsOf(callOk), fault \in FaultsOf(callOk /\ save, {"mkdir", "json", "md"}) :
         Finish("firecrawl_scrape", firecrawl_scrape(url, callOk, r, save, fault),
                [NoOpts EXCEPT !.save = save, !.fault = fault, !.callOk = callOk,
                               !.urls = <<url>>], r)

FirecrawlExtract ==
    /\ CanInvoke
    /\ \E urls \in UrlLists, callOk \in BOOLEAN,
          save \in BOOLEAN, excel \in BOOLEAN :
       \E r \in ResultsOf(callOk),
          fault \in { f \cup g : f \in FaultsOf(callOk /\ save, {"mkdir", "json", "md"}),
                                 g \in FaultsOf(callOk /\ excel, {"table"}) } :
         Finish("firecrawl_extract", firecrawl_extract(urls, callOk, r, save, excel, fault),
                [NoOpts EXCEPT !.save = save, !.excel = excel, !.fault = fault,
                               !.callOk = callOk, !.urls = urls], r)

Search ==
    /\ CanInvoke
    /\ \E callOk \in BOOLEAN, save \in BOOLEAN :
       \E r \in ResultsOf(callOk), fault \in FaultsOf(callOk /\ save, {"mkdir", "json", "md"}) :
         Finish("search", search("q", callOk, r, save, fault),
                [NoOpts EXCEPT !.save = save, !.fault = fault, !.callOk = callOk,
                               !.urls = <<"q">>], r)

Next ==
    \/ Connect
    \/ Disconnect
    \/ CrawlUrl
    \/ FirecrawlScrape
    \/ FirecrawlExtract
    \/ Search

Spec == Init /\ [][Next]_vars

(***************************************************************************)
(* File names and paths                                                    *)
(* A string is a sequence of atoms; a filename is [given, abs, name]       *)
(* (given = FALSE is None); a path is [dir, file].                         *)
(***************************************************************************)
NoName == [given |-> FALSE, abs |-> FALSE, name |-> <<>>]
Named(atoms) == [given |-> TRUE, abs |-> FALSE, name |-> atoms]

SecondNames == <<"s0", "s1", "s2", "s3", "s4", "s5", "s6", "s7">>
TickNames == <<"t0", "t1", "t2", "t3", "t4", "t5", "t6", "t7">>

\* mutant: the timestamp is cut to the minute
strftime_minutes(now) == SecondNames[((now \div TicksPerSecond) \div 60) + 1]

\* datetime.now().strftime("%Y%m%d_%H%M%S"): the clock cut to the whole second
strftime_seconds(now) == SecondNames[(now \div TicksPerSecond) + 1]

\* datetime.now().isoformat().replace(':', '_'): the clock at full resolution
isoformat(now) == TickNames[now + 1]

\* str.replace(old, new) on atoms; new = "" removes the atom
RECURSIVE Replace(_, _, _)
Replace(str, old, new) ==
    IF str = <<>> THEN <<>>
    ELSE (IF Head(str) # old THEN <<Head(str)>>
          ELSE IF new = "" THEN <<>> ELSE <<new>>) \o Replace(Tail(str), old, new)

\* url.replace("https://", "").replace("http://", "").replace("/", "_").replace(".", "_")
SanitizeUrl(url) ==
    Replace(Replace(Replace(Replace(url, "https://", ""), "http://", ""), "/", "_"), ".", "_")

\* Path(output_dir) / f"{filename}{ext}": an absolute right operand replaces the left
PathOf(output_dir, filename, ext) ==
    [dir |-> IF filename.abs THEN "cwd" ELSE output_dir, file |-> filename.name \o <<ext>>]

\* Path(filename).resolve(): absolute, relative to the working directory
Resolve(filename) == [filename EXCEPT !.abs = TRUE]

\* the json_path and md_path save_to_file computes
save_names(filename, output_dir, now) ==
    LET f == IF ~filename.given THEN Named(<<"firecrawl_result_", strftime_seconds(now)>>)
             ELSE filename
    IN  [json |-> PathOf(output_dir, f, ".json"), md |-> PathOf(output_dir, f, ".md")]

\* the filename crawl_url hands to save_to_file
crawl_filename(url, filename) ==
    IF ~filename.given THEN Named(<<"crawl_">> \o SanitizeUrl(url)) ELSE filename

\* the filename firecrawl_scrape hands to save_to_file
scrape_filename(url, filename) ==
    IF ~filename.given THEN Named(<<"scrape_">> \o SanitizeUrl(url)) ELSE filename

\* the filename search hands to save_to_file
search_filename(query, filename) ==
    IF ~filename.given THEN Named(<<"search_">> \o Replace(query, " ", "_")) ELSE filename

\* the filename firecrawl_extract hands to save_to_file: str(Path(filename).resolve())
extract_filename(filename, now) ==
    Resolve(IF ~filename.given THEN Named(<<"extract_", isoformat(now), ".json">>)
            ELSE filename)

(***************************************************************************)
(* Named saves over time (NameSpec)                                        *)
(***************************************************************************)
UrlTexts == {<<"https://", "a", ".", "com", "/", "p">>, <<"http://", "b", ".", "org">>}
QueryTexts == {<<"py", " ", "tut">>}
Filenames == {NoName, Named(<<"f">>)}

\* the response every named save stores
SavedResponse ==
    O(<<F("content", L(<<O(<<F("text", S(<<"A">>))>>), O(<<F("text", S(<<"B">>))>>)>>))>>)

NameInit ==
    /\ phase = "connected" /\ attrs = {"stdio_client", "session"}
    /\ chan = "entered" /\ sess = "entered"
    /\ improper = {} /\ discRaised = FALSE /\ nInvoked = 0 /\ nCalls = 0
    /\ EnvIdle
    /\ requests = <<>>
    /\ op = "none" /\ arg = NoneV /\ opts = NoOpts
    /\ ret = NoneV /\ raised = FALSE /\ writes = <<>> /\ log = {}

\* time passes
Tick ==
    /\ clock < MaxTicks
    /\ clock' = clock + 1
    /\ UNCHANGED <<phase, attrs, chan, sess, improper, discRaised, nInvoked, nCalls,
                   requests, op, arg, opts, ret, raised, writes, log, saved, run>>

\* the state a save under a name leaves
Saved(name, out, given, target, paths) ==
    /\ Len(saved) < MaxSaves
    /\ op' = name /\ arg' = SavedResponse
    /\ opts' = [NoOpts EXCEPT !.save = TRUE, !.urls = target]
    /\ ret' = out.ret /\ raised' = out.exc /\ writes' = out.writes /\ log' = out.log
    /\ saved' = Append(saved, [op |-> name, given |-> given, at |-> clock,
                               json |-> paths.json, md |-> paths.md])
    /\ UNCHANGED <<phase, attrs, chan, sess, improper, discRaised, clock, run>>

\* save_to_file(data, filename, output_dir) called directly
NamedSaveToFile ==
    \E filename \in Filenames :
      /\ Saved("save_to_file", save_to_file(SavedResponse, {}), filename, <<>>,
               save_names(filename, "out", clock))
      /\ UNCHANGED <<nInvoked, nCalls, requests>>

\* a facade call with save_to_file=True counts as an invocation with one request
Invoked(out) ==
    /\ requests' = out.requests
    /\ nInvoked' = nInvoked + 1
    /\ nCalls' = nCalls + Len(out.requests)

NamedCrawl ==
    \E url \in UrlTexts, filename \in Filenames :
      LET out == crawl_url(url, TRUE, SavedResponse, TRUE, {}) IN
      /\ Saved("crawl_url", out, filename, <<url>>,
               save_names(crawl_filename(url, filename), "output", clock))
      /\ Invoked(out)

NamedScrape ==
    \E url \in UrlTexts, filename \in Filenames :
      LET out == firecrawl_scrape(url, TRUE, SavedResponse, TRUE, {}) IN
      /\ Saved("firecrawl_scrape", out, filename, <<url>>,
               save_names(scrape_filename(url, filename), "output", clock))
      /\ Invoked(out)

NamedSearch ==
    \E query \in QueryTexts, filename \in Filenames :
      LET out == search(query, TRUE, SavedResponse, TRUE, {}) IN
      /\ Saved("search", out, filename, <<query>>,
               save_names(search_filename(query, filename), "output", clock))
      /\ Invoked(out)

NamedExtract ==
    \E url \in UrlTexts, filename \in Filenames :
      LET out == firecrawl_extract(<<url>>, TRUE, SavedResponse, TRUE, FALSE, {}) IN
      /\ Saved("firecrawl_extract", out, filename, <<url>>,
               save_names(extract_filename(filename, clock), "output", clock))
      /\ Invoked(out)

NameNext ==
    \/ Tick
    \/ NamedSaveToFile
    \/ NamedCrawl
    \/ NamedScrape
    \/ NamedSearch
    \/ NamedExtract

NameSpec == NameInit /\ [][NameNext]_vars

(***************************************************************************)
(* Catalog listings                                                        *)
(***************************************************************************)
ListOutcomes == {"catalog", "method_not_found", "error"}
ToolCatalogs ==
    {L(<<>>), L(<<O(<<F("name", S(<<"A">>)), F("description", S(<<"B">>))>>)>>)}
ResourceCatalogs ==
    {L(<<>>), L(<<O(<<F("uri", S(<<"A">>)), F("name", S(<<"B">>))>>)>>)}

\* list_tools(): the advertised tools, or [] on any exception
list_tools(outcome, catalog) ==
    LET reqs == <<[tool |-> "tools/list", target |-> <<>>]>> IN
    IF outcome = "catalog" THEN Return(catalog, reqs, <<>>, {"available_tools"})
    ELSE Return(L(<<>>), reqs, <<>>, {"error_listing_tools"})

\* mutant: only "Method not found" is tolerated, other errors are raised again
list_resources_reraise(outcome, catalog) ==
    LET reqs == <<[tool |-> "resources/list", target |-> <<>>]>> IN
    CASE outcome = "catalog" -> Return(catalog, reqs, <<>>, {"available_resources"})
      [] outcome = "method_not_found" -> Return(L(<<>>), reqs, <<>>, {"resources_not_supported"})
      [] OTHER -> Raise(reqs, <<>>, {})

\* list_resources(): the advertised resources, or [] on any exception
list_resources(outcome, catalog) ==
    LET reqs == <<[tool |-> "resources/list", target |-> <<>>]>> IN
    CASE outcome = "catalog" -> Return(catalog, reqs, <<>>, {"available_resources"})
      [] outcome = "method_not_found" -> Return(L(<<>>), reqs, <<>>, {"resources_not_supported"})
      [] OTHER -> Return(L(<<>>), reqs, <<>>, {"error_listing_resources"})

(***************************************************************************)
(* The entry points: main, debug_main and the interactive shell (RunSpec)  *)
(***************************************************************************)
\* results session.call_tool hands to the entry points
ShellResponses ==
    {O(<<F("content", L(<<O(<<F("text", S(<<"A">>))>>), O(<<F("text", S(<<"B">>))>>)>>))>>),
     O(<<F("_meta", NoneV), F("content", L(<<>>)), F("isError", N(0))>>)}

ShellFaults == {{}, {"mkdir"}}

ResultOf(callOk, r) == IF callOk THEN r ELSE NoneV

NoOut == Return(NoneV, <<>>, <<>>, {})

IdleSession ==
    [phase |-> "new", attrs |-> {}, chan |-> "absent", sess |-> "absent",
     improper |-> {}, discRaised |-> FALSE]

Connected(c) ==
    [phase |-> IF c.exc THEN "connect_failed" ELSE "connected",
     attrs |-> c.attrs, chan |-> c.chan, sess |-> c.sess,
     improper |-> {}, discRaised |-> FALSE]

Disconnected(c, d) ==
    [phase |-> "disconnected", attrs |-> c.attrs, chan |-> d.chan, sess |-> d.sess,
     improper |-> d.improper, discRaised |-> d.exc]

\* events of the session a run leaves in its trace
EvConnect(c) ==
    <<"connect_begin", IF c.exc THEN "connect_failed" ELSE "connect_end">>

EvDisconnect(d) ==
    <<"disconnect_begin", IF d.exc THEN "disconnect_raised" ELSE "disconnect_end">>

\* mutant: the request is sent and its answer is not waited for
NotAwaited(out) ==
    IF out.requests = <<>> THEN <<>> ELSE <<"send">>

\* await self.session.<call>: the request is sent and the coroutine resumes
\* only with its answer
Awaited(out) ==
    IF out.requests = <<>> THEN <<>> ELSE <<"send", "recv">>

\* the statements of a try block that run: up to the first one that raises
RECURSIVE Executed(_)
Executed(outs) ==
    IF outs = <<>> THEN <<>>
    ELSE IF Head(outs).exc THEN <<Head(outs)>>
    ELSE <<Head(outs)>> \o Executed(Tail(outs))

RECURSIVE EvCalls(_)
EvCalls(outs) ==
    IF outs = <<>> THEN <<>> ELSE Awaited(Head(outs)) \o EvCalls(Tail(outs))

\* mutant: the constructor runs outside every entry point's try block
StartupErrorEscapes(entry) == "escapes"

\* where FirecrawlMCPClient()'s FileNotFoundError goes: main and debug_main
\* construct the client inside their try block, the shell before it
StartupError(entry) ==
    IF entry = "interactive" THEN "escapes" ELSE "caught"

\* what a run that ends in the constructor leaves
NoClient(entry, printed) ==
    [session |-> IdleSession, trace |-> <<>>,
     escaped |-> IF StartupError(entry) = "escapes" THEN "FileNotFoundError" ELSE "none",
     caught |-> IF StartupError(entry) = "escapes" THEN "none" ELSE "FileNotFoundError",
     printed |-> printed \cup (IF StartupError(entry) = "escapes" THEN {} ELSE {"error"}),
     outs |-> <<>>]

\* try: client = FirecrawlMCPClient(); connect(); <calls> / except Exception:
\* print / finally: disconnect() when the client was constructed
ScriptedRun(entry, in, printed, calls) ==
    LET c == connect(in.failAt)
        d == disconnect(c.attrs, c.chan, c.sess, in.raiseS, in.raiseC)
        outs == Executed(calls)
        failed == outs # <<>> /\ outs[Len(outs)].exc
    IN  IF ~in.found THEN NoClient(entry, printed)
        ELSE IF c.exc
        THEN [session |-> Disconnected(c, d),
              trace |-> EvConnect(c) \o EvDisconnect(d),
              escaped |-> IF d.exc THEN "disconnect" ELSE "none",
              caught |-> "connect", printed |-> printed \cup {"error"}, outs |-> <<>>]
        ELSE [session |-> Disconnected(c, d),
              trace |-> EvConnect(c) \o EvCalls(outs) \o EvDisconnect(d),
              escaped |-> IF d.exc THEN "disconnect" ELSE "none",
              caught |-> IF failed THEN "operation" ELSE "none",
              printed |-> printed \cup (IF failed THEN {"error"} ELSE {}),
              outs |-> outs]

MainUrls == <<"https://", "t", ".", "com", "/", "r">>

\* main(): the warning, then list_resources and one firecrawl_extract with
\* save_as_excel=True (save_to_file keeps its default)
main(in) ==
    ScriptedRun("main", in, IF in.key THEN {} ELSE {"api_key_warning"},
        <<list_resources(in.listing, in.catalog),
          firecrawl_extract(<<MainUrls>>, in.callOks[1], ResultOf(in.callOks[1], in.r),
                            FALSE, TRUE, in.fault)>>)

\* debug_main(): returns after the warning when the key is not set; else
\* list_tools and the firecrawl_scrape calls, nothing saved
debug_main(in) ==
    IF ~in.key
    THEN [session |-> IdleSession, trace |-> <<>>, escaped |-> "none", caught |-> "none",
          printed |-> {"api_key_warning"}, outs |-> <<>>]
    ELSE ScriptedRun("debug_main", in, {},
           <<list_tools(in.listing, in.catalog)>>
           \o [i \in 1..DebugScrapes |->
                 firecrawl_scrape(MainUrls, in.callOks[i], ResultOf(in.callOks[i], in.r),
                                  FALSE, {})])

ScriptInputs(calls, catalogs, faults) ==
    [key : BOOLEAN, found : BOOLEAN, failAt : {"open", "enter", "initialize", "none"},
     listing : ListOutcomes, catalog : catalogs, callOks : [1..calls -> BOOLEAN],
     r : ShellResponses, fault : faults, raiseS : BOOLEAN, raiseC : BOOLEAN]

RunInit ==
    /\ SessionIdle
    /\ requests = <<>>
    /\ op = "none" /\ arg = NoneV /\ opts = NoOpts
    /\ ret = NoneV /\ raised = FALSE /\ writes = <<>> /\ log = {}

\* the client's state a run leaves
Leaves(session) ==
    /\ phase' = session.phase /\ attrs' = session.attrs
    /\ chan' = session.chan /\ sess' = session.sess
    /\ improper' = improper \cup session.improper
    /\ discRaised' = (discRaised \/ session.discRaised)

\* the last operation a run made
LastOp(name, out, o, r) ==
    /\ op' = name /\ arg' = r /\ opts' = o
    /\ ret' = out.ret /\ raised' = out.exc /\ writes' = out.writes /\ log' = out.log
    /\ requests' = out.requests

NoLastOp == UNCHANGED <<op, arg, opts, ret, raised, writes, log, requests>>

\* the state a scripted entry point leaves when it returns
Ran(entry, in, m, name, excel) ==
    /\ Leaves(m.session)
    /\ run' = [NoRun EXCEPT !.entry = entry, !.pc = "done", !.in = in,
                            !.trace = m.trace, !.escaped = m.escaped,
                            !.caught = m.caught, !.printed = m.printed]
    /\ IF Len(m.outs) >= 2
       THEN /\ LastOp(name, m.outs[Len(m.outs)],
                      [NoOpts EXCEPT !.excel = excel, !.fault = in.fault,
                                     !.callOk = in.callOks[Len(m.outs) - 1],
                                     !.urls = <<MainUrls>>],
                      ResultOf(in.callOks[Len(m.outs) - 1], in.r))
            /\ nInvoked' = nInvoked + Len(m.outs) - 1
            /\ nCalls' = nCalls + Len(m.outs) - 1
       ELSE NoLastOp /\ UNCHANGED <<nInvoked, nCalls>>
    /\ UNCHANGED <<clock, saved>>

Main ==
    /\ run.pc = "idle"
    /\ \E in \in ScriptInputs(1, ResourceCatalogs, {{}, {"table"}}) :
         Ran("main", in, main(in), "firecrawl_extract", TRUE)

DebugMain ==
    /\ run.pc = "idle"
    /\ \E in \in ScriptInputs(DebugScrapes, ToolCatalogs, {{}}) :
         Ran("debug_main", in, debug_main(in), "firecrawl_scrape", FALSE)

\* client = FirecrawlMCPClient(); await client.connect(), before the try block
ShellStart ==
    /\ run.pc = "idle"
    /\ \E found \in BOOLEAN, failAt \in {"open", "enter", "initialize", "none"} :
         LET in == [NoIn EXCEPT !.found = found, !.failAt = failAt]
             c == connect(failAt)
             n == NoClient("interactive", {})
         IN  IF ~found
             THEN /\ Leaves(n.session)
                  /\ run' = [NoRun EXCEPT !.entry = "interactive", !.pc = "done", !.in = in,
                                          !.escaped = n.escaped, !.caught = n.caught,
                                          !.printed = n.printed]
             ELSE /\ Leaves(Connected(c))
                  /\ run' = [NoRun EXCEPT !.entry = "interactive", !.in = in,
                                          !.pc = IF c.exc THEN "done" ELSE "menu",
                                          !.trace = EvConnect(c),
                                          !.escaped = IF c.exc THEN "connect" ELSE "none"]
    /\ NoLastOp
    /\ UNCHANGED <<nInvoked, nCalls, clock, saved>>

\* item.text[:500] in the previews of scrape, crawl and search raises on a
\* text that cannot be sliced; the extract preview wraps it in str()
PreviewRaises(choice, result) ==
    /\ choice # "6"
    /\ HasAttr(result, "content")
    /\ LET c == Attr(result, "content") IN
         IF HasIter(c) /\ ~IsStr(c)
         THEN \E i \in 1..Len(Iter(c)) :
                HasAttr(Iter(c)[i], "text") /\ ~Sliceable(Attr(Iter(c)[i], "text"))
         ELSE HasAttr(c, "text") /\ ~Sliceable(Attr(c, "text"))

\* mutant: an operation that returns None ends the loop
shell_turn_ends_on_failure(choice, interrupted, out, save) ==
    IF interrupted THEN [pc |-> "done", escaped |-> "none", last |-> "interrupt"]
    ELSE IF choice = "7" THEN [pc |-> "done", escaped |-> "none", last |-> "exit"]
    ELSE IF out.requests # <<>> /\ ~Truthy(out.ret)
    THEN [pc |-> "done", escaped |-> "none", last |-> choice]
    ELSE [pc |-> "menu", escaped |-> "none", last |-> choice]

\* how one pass of the menu loop ends: KeyboardInterrupt is caught after the
\* loop, "7" breaks, an exception of another kind leaves the shell, anything
\* else goes back to the menu
shell_turn(choice, interrupted, out, save) ==
    IF interrupted THEN [pc |-> "done", escaped |-> "none", last |-> "interrupt"]
    ELSE IF choice = "7" THEN [pc |-> "done", escaped |-> "none", last |-> "exit"]
    ELSE IF out.exc THEN [pc |-> "done", escaped |-> "operation", last |-> choice]
    ELSE IF Truthy(out.ret) /\ ~save /\ PreviewRaises(choice, out.ret)
    THEN [pc |-> "done", escaped |-> "preview", last |-> choice]
    ELSE [pc |-> "menu", escaped |-> "none", last |-> choice]

\* the state one pass of the menu loop leaves; finally: disconnect() when the
\* loop has ended
Turn(t, events, printed, counted, flow) ==
    /\ IF t.pc = "done"
       THEN \E raiseS \in BOOLEAN, raiseC \in BOOLEAN :
              LET d == disconnect(attrs, chan, sess, raiseS, raiseC) IN
              /\ Leaves(Disconnected([attrs |-> attrs], d))
              /\ run' = [run EXCEPT !.pc = "done", !.last = t.last,
                                    !.escaped = IF d.exc THEN "disconnect" ELSE t.escaped,
                                    !.trace = @ \o events \o EvDisconnect(d),
                                    !.printed = @ \cup printed,
                                    !.turns = @ + counted, !.called = flow.called,
                                    !.schema = flow.schema, !.answers = flow.answers]
       ELSE /\ UNCHANGED <<phase, attrs, chan, sess, improper, discRaised>>
            /\ run' = [run EXCEPT !.last = t.last, !.trace = @ \o events,
                                  !.printed = @ \cup printed, !.turns = @ + counted,
                                  !.called = flow.called, !.schema = flow.schema,
                                  !.answers = flow.answers]
    /\ UNCHANGED <<clock, saved>>

\* what the last extract flow asked and forwarded
NoFlow == [called |-> FALSE, schema |-> NoneV, answers |-> NoAnswers]

SameFlow == [called |-> run.called, schema |-> run.schema, answers |-> run.answers]

AtMenu == run.entry = "interactive" /\ run.pc = "menu"

CanTurn == AtMenu /\ run.turns < MaxTurns

\* choice "1"
ShellListTools ==
    /\ CanTurn
    /\ \E outcome \in ListOutcomes, catalog \in ToolCatalogs :
         LET out == list_tools(outcome, catalog) IN
         /\ Turn(shell_turn("1", FALSE, out, TRUE), Awaited(out), {}, 1, SameFlow)
         /\ LastOp("list_tools", out, [NoOpts EXCEPT !.format = outcome], catalog)
    /\ UNCHANGED <<nInvoked, nCalls>>

\* choice "2"
ShellListResources ==
    /\ CanTurn
    /\ \E outcome \in ListOutcomes, catalog \in ResourceCatalogs :
         LET out == list_resources(outcome, catalog) IN
         /\ Turn(shell_turn("2", FALSE, out, TRUE), Awaited(out), {}, 1, SameFlow)
         /\ LastOp("list_resources", out, [NoOpts EXCEPT !.format = outcome], catalog)
    /\ UNCHANGED <<nInvoked, nCalls>>

\* a facade operation run from the menu
ShellOp(choice, name, out, o, r) ==
    /\ Turn(shell_turn(choice, FALSE, out, o.save), Awaited(out), {}, 1, SameFlow)
    /\ LastOp(name, out, o, r)
    /\ nInvoked' = nInvoked + 1
    /\ nCalls' = nCalls + Len(out.requests)

\* an empty answer to the first prompt: back to the menu, nothing called
ShellSkip(choice, flow) ==
    /\ Turn(shell_turn(choice, FALSE, NoOut, FALSE), <<>>, {}, 1, flow)
    /\ NoLastOp
    /\ UNCHANGED <<nInvoked, nCalls>>

\* choice "3"
ShellScrape ==
    /\ CanTurn
    /\ \/ ShellSkip("3", SameFlow)
       \/ \E callOk \in BOOLEAN, save \in BOOLEAN :
          \E r \in (IF callOk THEN ShellResponses ELSE {NoneV}),
             fault \in (IF callOk /\ save THEN ShellFaults ELSE {{}}) :
            ShellOp("3", "firecrawl_scrape", firecrawl_scrape(MainUrls, callOk, r, save, fault),
                    [NoOpts EXCEPT !.save = save, !.fault = fault, !.callOk = callOk,
                                   !.urls = <<MainUrls>>], r)

\* choice "4"
ShellCrawl ==
    /\ CanTurn
    /\ \/ ShellSkip("4", SameFlow)
       \/ \E callOk \in BOOLEAN, save \in BOOLEAN :
          \E r \in (IF callOk THEN ShellResponses ELSE {NoneV}),
             fault \in (IF callOk /\ save THEN ShellFaults ELSE {{}}) :
            ShellOp("4", "crawl_url", crawl_url(MainUrls, callOk, r, save, fault),
                    [NoOpts EXCEPT !.save = save, !.fault = fault, !.callOk = callOk,
                                   !.urls = <<MainUrls>>], r)

\* choice "5"
ShellSearch ==
    /\ CanTurn
    /\ \/ ShellSkip("5", SameFlow)
       \/ \E callOk \in BOOLEAN, save \in BOOLEAN :
          \E r \in (IF callOk THEN ShellResponses ELSE {NoneV}),
             fault \in (IF callOk /\ save THEN ShellFaults ELSE {{}}) :
            ShellOp("5", "search", search(<<"py", " ", "tut">>, callOk, r, save, fault),
                    [NoOpts EXCEPT !.save = save, !.fault = fault, !.callOk = callOk,
                                   !.urls = <<<<"py", " ", "tut">>>>], r)

(***************************************************************************)
(* The extract flow of the shell                                           *)
(***************************************************************************)
JsonFail == [ok |-> FALSE, value |-> NoneV, rest |-> <<>>]

\* one JSON value at the head of a token sequence: null, a number, an object
\* with at most one member
RECURSIVE ParseValue(_)
ParseValue(t) ==
    IF t = <<>> THEN JsonFail
    ELSE CASE Head(t) = "null" -> [ok |-> TRUE, value |-> NoneV, rest |-> Tail(t)]
           [] Head(t) = "1" -> [ok |-> TRUE, value |-> N(1), rest |-> Tail(t)]
           [] Head(t) = "{" ->
                IF Len(t) >= 2 /\ t[2] = "}"
                THEN [ok |-> TRUE, value |-> M(<<>>), rest |-> SubSeq(t, 3, Len(t))]
                ELSE IF Len(t) >= 4 /\ t[2] = "k" /\ t[3] = ":"
                THEN LET v == ParseValue(SubSeq(t, 4, Len(t))) IN
                     IF v.ok /\ v.rest # <<>> /\ Head(v.rest) = "}"
                     THEN [ok |-> TRUE, value |-> M(<<F("k", v.value)>>),
                           rest |-> Tail(v.rest)]
                     ELSE JsonFail
                ELSE JsonFail
           [] OTHER -> JsonFail

\* json.loads(schema_input): the value when the whole input is one JSON value
json_loads(t) ==
    LET p == ParseValue(t) IN
    IF p.ok /\ p.rest = <<>> THEN [ok |-> TRUE, value |-> p.value]
    ELSE [ok |-> FALSE, value |-> NoneV]

SchemaInputs ==
    {<<>>, <<"{", "}">>, <<"{", "k", ":", "1", "}">>, <<"null">>, <<"{", "k">>, <<"1", "1">>}

\* the product example schema of the shell
DefaultSchema ==
    M(<<F("type", S(<<"object">>)), F("properties", M(<<>>)), F("required", L(<<S(<<"name">>)>>))>>)

\* mutant: input that is not JSON falls back to the default schema
shell_schema_default_on_invalid(use_schema, schema_input) ==
    IF ~use_schema THEN NoneV
    ELSE IF schema_input = <<>> THEN DefaultSchema
    ELSE IF json_loads(schema_input).ok THEN json_loads(schema_input).value
    ELSE DefaultSchema

\* the schema the extract flow forwards
shell_schema(use_schema, schema_input) ==
    IF ~use_schema THEN NoneV
    ELSE IF schema_input = <<>> THEN DefaultSchema
    ELSE IF json_loads(schema_input).ok THEN json_loads(schema_input).value
    ELSE NoneV

\* mutant: the answer to "Save as Excel?" is passed on
shell_excel_forwarded(answer) == answer

\* the save_as_excel the extract flow passes: none, so the parameter's default
shell_excel(answer) == FALSE

ShellUrlLists == {<<MainUrls>>}

\* choice "6"
ShellExtract ==
    /\ CanTurn
    /\ \/ ShellSkip("6", NoFlow)
       \/ \E urls \in ShellUrlLists, use_schema \in BOOLEAN, callOk \in BOOLEAN,
             save \in BOOLEAN :
          \E schema_input \in (IF use_schema THEN SchemaInputs ELSE {<<>>}),
             excel \in (IF save THEN BOOLEAN ELSE {FALSE}),
             r \in (IF callOk THEN ShellResponses ELSE {NoneV}),
             fault \in (IF callOk /\ save THEN ShellFaults ELSE {{}}) :
            LET out == firecrawl_extract(urls, callOk, r, save, shell_excel(excel), fault)
                t == shell_turn("6", FALSE, out, save)
                schema == shell_schema(use_schema, schema_input)
                ans == [use_schema |-> use_schema, schema_input |-> schema_input,
                        save |-> save, excel |-> excel]
            IN  /\ Turn(t, Awaited(out),
                        IF ~use_schema THEN {}
                        ELSE IF schema_input = <<>> THEN {"default_schema"}
                        ELSE IF json_loads(schema_input).ok THEN {}
                        ELSE {"invalid_schema"}, 1,
                        [called |-> TRUE, schema |-> schema, answers |-> ans])
                /\ LastOp("firecrawl_extract", out,
                          [NoOpts EXCEPT !.save = save, !.excel = shell_excel(excel),
                                         !.fault = fault, !.callOk = callOk,
                                         !.urls = urls], r)
                /\ nInvoked' = nInvoked + 1
                /\ nCalls' = nCalls + Len(out.requests)

\* any other choice
ShellInvalid ==
    /\ CanTurn
    /\ Turn(shell_turn("0", FALSE, NoOut, FALSE), <<>>, {"invalid_choice"}, 1, SameFlow)
    /\ NoLastOp
    /\ UNCHANGED <<nInvoked, nCalls>>

\* choice "7"
ShellExit ==
    /\ AtMenu
    /\ Turn(shell_turn("7", FALSE, NoOut, FALSE), <<>>, {}, 0, SameFlow)
    /\ NoLastOp
    /\ UNCHANGED <<nInvoked, nCalls>>

\* KeyboardInterrupt, at a prompt or while a remote call is awaited
ShellInterrupt ==
    /\ AtMenu
    /\ \E during \in {"prompt", "call"} :
         Turn(shell_turn("1", TRUE, NoOut, FALSE),
              IF during = "call" THEN <<"send", "abort">> ELSE <<>>, {"goodbye"}, 0, SameFlow)
    /\ NoLastOp
    /\ UNCHANGED <<nInvoked, nCalls>>

RunNext ==
    \/ Main
    \/ DebugMain
    \/ ShellStart
    \/ ShellListTools
    \/ ShellListResources
    \/ ShellScrape
    \/ ShellCrawl
    \/ ShellSearch
    \/ ShellExtract
    \/ ShellInvalid
    \/ ShellExit
    \/ ShellInterrupt

RunSpec == RunInit /\ [][RunNext]_vars

(***************************************************************************)
(* Reference notions the claims about the normalizer are stated with.      *)
(***************************************************************************)
RECURSIVE ClaimFragments(_)
RECURSIVE ClaimFragmentsOfItems(_)
RECURSIVE ClaimFragmentsOfValues(_)

ClaimFragmentsOfItems(items) ==
    IF items = <<>> THEN <<>>
    ELSE ClaimFragments(Head(items)) \o ClaimFragmentsOfItems(Tail(items))

ClaimFragmentsOfValues(fs) ==
    IF fs = <<>> THEN <<>>
    ELSE ClaimFragments(Head(fs).v) \o ClaimFragmentsOfValues(Tail(fs))

\* the text fragments of a value, in traversal order: a text field, a
\* string-valued content field, or a plain string anywhere in the nested
\* structure, including as a value inside a mapping
ClaimFragments(x) ==
    CASE x.tag = "str"  -> <<x>>
      [] x.tag = "list" -> ClaimFragmentsOfItems(x.v)
      [] x.tag = "map"  -> ClaimFragmentsOfValues(x.v)
      [] x.tag = "obj"  ->
            IF "text" \in Keys(x) THEN <<Attr(x, "text")>>
            ELSE IF "content" \in Keys(x) THEN ClaimFragments(Attr(x, "content"))
            ELSE <<>>
      [] OTHER          -> <<>>

\* no text-bearing field anywhere: every fragment found is the empty string
NoTextBearing(x) ==
    \A i \in 1..Len(ClaimFragments(x)) : ClaimFragments(x)[i] = S(<<>>)

\* at least one text fragment, and every fragment is a string
HasTextFragments(x) ==
    /\ \E i \in 1..Len(ClaimFragments(x)) : ClaimFragments(x)[i] # S(<<>>)
    /\ \A i \in 1..Len(ClaimFragments(x)) : IsStr(ClaimFragments(x)[i])

RECURSIVE NoMaps(_)
\* built from attribute-bearing objects, sequences and primitives only
NoMaps(x) ==
    CASE x.tag = "map"  -> FALSE
      [] x.tag = "list" -> \A i \in 1..Len(x.v) : NoMaps(x.v[i])
      [] x.tag = "obj"  -> \A i \in 1..Len(x.v) : NoMaps(x.v[i].v)
      [] OTHER          -> TRUE

RECURSIVE ClaimSerial(_)
\* the serializable form as the claim describes it: an object becomes the
\* mapping of its fields not starting with an underscore, a sequence the list
\* of its items' forms, a mapping keeps its keys, a primitive is unchanged
ClaimSerial(x) ==
    CASE x.tag = "obj"  ->
            M(SelectSeq([i \in 1..Len(x.v) |-> F(x.v[i].k, ClaimSerial(x.v[i].v))],
                        LAMBDA e : e.k \notin {"_meta", "_raw"}))
      [] x.tag = "map"  -> M([i \in 1..Len(x.v) |-> F(x.v[i].k, ClaimSerial(x.v[i].v))])
      [] x.tag = "list" -> L([i \in 1..Len(x.v) |-> ClaimSerial(x.v[i])])
      [] OTHER          -> x

\* a non-empty content sequence whose items all carry a text field
ClaimTableShape(x) ==
    /\ x.tag = "obj" /\ "content" \in Keys(x)
    /\ Attr(x, "content").tag = "list" /\ Attr(x, "content").v # <<>>
    /\ \A i \in 1..Len(Attr(x, "content").v) :
         /\ Attr(x, "content").v[i].tag = "obj"
         /\ "text" \in Keys(Attr(x, "content").v[i])

Attempted(file) == \E i \in 1..Len(writes) : writes[i].file = file

(***************************************************************************)
(* Claims about the session and the facade (Spec)                          *)
(***************************************************************************)
FacadeOps == {"crawl_url", "firecrawl_scrape", "firecrawl_extract", "search"}

\* an exception was raised in the last facade operation: by the remote call,
\* by the debug prints of firecrawl_scrape, or out of the persistence step
\* (the directory cannot be created, or the text reduction raises)
FailureRaised ==
    \/ ~opts.callOk
    \/ op = "firecrawl_scrape" /\ HasAttr(arg, "text") /\ ~Sliceable(Attr(arg, "text"))
    \/ opts.save /\ ("mkdir" \in opts.fault \/ extract_text_content(arg).exc)

\* C1: in each of the four facade operations every exception raised by the
\* remote call or by the persistence step is caught: none escapes and the
\* operation returns None; when none is raised it returns the raw response.
C1_FailuresBecomeNone ==
    op \in FacadeOps =>
      /\ ~raised
      /\ ret = (IF FailureRaised THEN NoneV ELSE arg)

\* C1 witness: the call succeeded, the persistence step raised, None came back.
C1_Witness ==
    /\ op = "firecrawl_extract" /\ opts.callOk /\ opts.save
    /\ "mkdir" \in opts.fault
    /\ arg \in FacadeResponses
    /\ ret = NoneV /\ ~raised

\* C2: disconnect() is safe in every state connect() can leave: it raises no
\* error, releases only a channel or session that was entered, and never
\* releases the same one twice.
C2_DisconnectSafe == ~discRaised /\ improper = {}

\* C3: every facade invocation issues exactly one remote call, carrying all the
\* URLs of a firecrawl_extract; a failed call is not repeated and the operation
\* returns None without saving anything.
C3_OneCallNoRetry ==
    /\ nCalls = nInvoked
    /\ op \in FacadeOps =>
         /\ requests = <<[tool |-> op, target |-> opts.urls]>>
         /\ ~opts.callOk => (ret = NoneV /\ writes = <<>>)

\* C3 witness: a second invocation, a two-URL extract whose call failed.
C3_Witness ==
    /\ op = "firecrawl_extract" /\ Len(opts.urls) = 2 /\ ~opts.callOk
    /\ nInvoked = 2 /\ nCalls = 2
    /\ ret = NoneV

(***************************************************************************)
(* Claims about the normalizer and the persistence helpers (SaveSpec)      *)
(***************************************************************************)

\* C4: for a response with no text-bearing field anywhere (mappings, empty
\* sequences, objects whose only text is the empty string included) the text
\* reduction returns nothing, and save_to_file writes no Markdown file and
\* returns nothing as the Markdown path.
C4_NoTextNoMarkdown ==
    /\ (op = "extract_text_content" /\ NoTextBearing(arg))
          => (~raised /\ ~Truthy(ret))
    /\ (op = "save_to_file" /\ NoTextBearing(arg) /\ "mkdir" \notin opts.fault)
          => (~raised /\ ~Attempted("md") /\ ret = SavedPaths(FALSE))

\* C5: for a response with at least one text fragment, the Markdown content
\* save_to_file writes is exactly the fragments joined with a blank line, in
\* traversal order.
C5_MarkdownIsJoinedFragments ==
    (op = "save_to_file" /\ HasTextFragments(arg) /\ opts.fault \cap {"mkdir", "md"} = {})
       => /\ ~raised
          /\ \E i \in 1..Len(writes) :
               writes[i] = Write("md", TRUE, S(JoinChars(ClaimFragments(arg))))

\* C6: _make_serializable is idempotent on values built from objects,
\* sequences and primitives: reducing its own output returns an equal value.
C6_SerializableIdempotent ==
    (op = "make_serializable" /\ NoMaps(arg)) => make_serializable(ret) = ret

\* C7: _make_serializable maps an object to the mapping of its non-underscore
\* fields, a sequence to the list of its items' reductions and a primitive to
\* itself, and save_to_file writes that reduction as the JSON file whatever
\* the shape of the response's top level.
C7_JsonIsReduction ==
    /\ (op = "make_serializable" /\ NoMaps(arg)) => ret = ClaimSerial(arg)
    /\ (op = "save_to_file" /\ opts.fault \cap {"mkdir", "json"} = {})
          => (writes # <<>> /\ writes[1] = Write("json", TRUE, ClaimSerial(arg)))

\* C8: save_to_table never lets an exception escape; it writes a file only for
\* a non-empty content sequence whose items all carry text and a format of
\* "csv" or "excel"; in every other case no file is written and the skip or
\* failure is reported.
C8_TableOnlyForTextItems ==
    op = "save_to_table" =>
      /\ ~raised
      /\ writes # <<>> => (ClaimTableShape(arg) /\ opts.format \in {"csv", "excel"})
      /\ ~(ClaimTableShape(arg) /\ opts.format \in {"csv", "excel"})
            => /\ writes = <<>>
               /\ log \cap {"no_content", "failed_to_save_table", "unsupported_format"} # {}

\* C8 witness: content items of another shape; the failure is reported and
\* nothing is written.
C8_Witness ==
    /\ op = "save_to_table" /\ opts.format = "csv"
    /\ HasAttr(arg, "content") /\ Truthy(Attr(arg, "content"))
    /\ ~ClaimTableShape(arg)
    /\ writes = <<>> /\ "failed_to_save_table" \in log /\ ~raised

\* C9: for a non-empty content sequence of items that each carry text,
\* save_to_table with "csv" or "excel" writes (when the writer does not fail)
\* a one-column table with one row per item, holding the item's text, in the
\* order of the content sequence.
C9_TableRowsAreTexts ==
    (op = "save_to_table" /\ ClaimTableShape(arg)
        /\ opts.format \in {"csv", "excel"} /\ "table" \notin opts.fault)
      => /\ Len(writes) = 1
         /\ writes[1].file = (IF opts.format = "csv" THEN "csv" ELSE "xlsx")
         /\ writes[1].ok
         /\ writes[1].content.tag = "table"
         /\ Len(writes[1].content.v) = Len(Attr(arg, "content").v)
         /\ \A i \in 1..Len(Attr(arg, "content").v) :
              writes[1].content.v[i] = <<Attr(Attr(arg, "content").v[i], "text")>>

\* C9 witness: content [A, B] saved as csv gives the rows A, B.
C9_Witness ==
    /\ op = "save_to_table" /\ opts.format = "csv"
    /\ arg = O(<<F("content", L(<<O(<<F("text", S(<<"A">>))>>), O(<<F("text", S(<<"B">>))>>)>>))>>)
    /\ writes = <<Write("csv", TRUE, [tag |-> "table", v |-> <<<<S(<<"A">>)>>, <<S(<<"B">>)>>>>])>>

\* C10: in save_to_file the JSON write and the Markdown write are independent:
\* the JSON write is always attempted, the Markdown write is attempted whenever
\* the text reduction is non-empty, and a failure of either step does not make
\* save_to_file raise.
C10_WritesIndependent ==
    (op = "save_to_file" /\ "mkdir" \notin opts.fault)
      => /\ ~raised
         /\ Attempted("json")
         /\ HasTextFragments(arg) => Attempted("md")

(***************************************************************************)
(* Claims about file names (NameSpec)                                      *)
(***************************************************************************)
Stem(file) == SubSeq(file, 1, Len(file) - 1)

\* C11: every facade operation called with save_to_file enabled writes its
\* JSON to output/<name>.json and its Markdown to output/<name>.md, <name>
\* being the caller's filename when one is given, with exactly one .json
\* extension.
C11_SavedUnderOutputDir ==
    \A i \in 1..Len(saved) :
      saved[i].op \in FacadeOps =>
        /\ saved[i].json.dir = "output" /\ saved[i].md.dir = "output"
        /\ saved[i].json.file = Stem(saved[i].json.file) \o <<".json">>
        /\ saved[i].md.file = Stem(saved[i].json.file) \o <<".md">>
        /\ \A k \in 1..Len(Stem(saved[i].json.file)) : Stem(saved[i].json.file)[k] # ".json"
        /\ saved[i].given.given => Stem(saved[i].json.file) = saved[i].given.name

\* two direct saves without a filename, exactly one second apart
OneSecondApart(i, j) ==
    /\ saved[i].op = "save_to_file" /\ saved[j].op = "save_to_file"
    /\ ~saved[i].given.given /\ ~saved[j].given.given
    /\ saved[j].at - saved[i].at = TicksPerSecond

\* C12: two save_to_file calls without a filename, into the same directory and
\* one second apart by the clock save_to_file reads, get distinct timestamped
\* file names, so the second save does not overwrite the first one's files.
C12_DistinctTimestampedNames ==
    \A i \in 1..Len(saved), j \in 1..Len(saved) :
      OneSecondApart(i, j) =>
        (saved[i].json # saved[j].json /\ saved[i].md # saved[j].md)

\* C12 witness: two such saves were made.
C12_Witness ==
    /\ Len(saved) >= 2
    /\ OneSecondApart(1, 2)
    /\ saved[1].json.file = <<"firecrawl_result_", "s0", ".json">>
    /\ saved[2].json.file = <<"firecrawl_result_", "s1", ".json">>

(***************************************************************************)
(* Claims about the entry points (RunSpec)                                 *)
(***************************************************************************)
Events(trace) == {trace[i] : i \in 1..Len(trace)}

Count(trace, e) == Cardinality({i \in 1..Len(trace) : trace[i] = e})

\* C13: list_resources never lets an error out: when the remote side answers
\* that the method is not supported, or the listing fails in any other way, it
\* returns an empty result, and otherwise exactly the advertised catalog;
\* list_tools likewise returns the advertised tools or an empty result.
C13_ListingsNeverRaise ==
    op \in {"list_tools", "list_resources"} =>
      /\ ~raised
      /\ run.escaped = "none"
      /\ ret = IF opts.format = "catalog" THEN arg ELSE L(<<>>)

\* C13 witness: in the shell a listing of resources failed with an error other
\* than "Method not found", gave an empty result and went back to the menu.
C13_Witness ==
    /\ op = "list_resources" /\ opts.format = "error" /\ ret = L(<<>>)
    /\ run.entry = "interactive" /\ run.pc = "menu"

\* the run reached the constructor and the server executable was not found
StartupFailed ==
    /\ run.pc = "done" /\ ~run.in.found
    /\ ~(run.entry = "debug_main" /\ ~run.in.key)

\* connect() completed in this run
ConnectedRun == "connect_end" \in Events(run.trace)

\* nothing raised after the connect got out of a client method or ended the run
NothingEscapes ==
    /\ run.escaped = "none" /\ run.caught = "none" /\ ~raised
    /\ (run.entry = "interactive" /\ run.pc = "done") => run.last \in {"exit", "interrupt"}

\* C14 (as stated): in every entry point a server executable that cannot be
\* located surfaces as an uncaught startup error, and every remote-call or
\* file I/O failure after a successful connect is caught and does not end the
\* run.
C14_StartupErrorEscapesEverywhere ==
    /\ StartupFailed => run.escaped = "FileNotFoundError"
    /\ ConnectedRun => NothingEscapes

\* C14 (amended): the startup error escapes uncaught from the interactive
\* shell only; main and debug_main catch it, print it and return without
\* connecting.  In all three entry points every remote-call or file I/O
\* failure after a successful connect is caught and does not end the run.
C14_StartupErrorEscapesFromShellOnly ==
    /\ StartupFailed =>
         IF run.entry = "interactive"
         THEN run.escaped = "FileNotFoundError" /\ run.caught = "none"
         ELSE /\ run.escaped = "none" /\ run.caught = "FileNotFoundError"
              /\ "error" \in run.printed /\ run.trace = <<>>
    /\ ConnectedRun => NothingEscapes

\* C14 witness: main returned normally although the server was not found.
C14_Witness ==
    /\ run.entry = "main" /\ StartupFailed
    /\ run.escaped = "none" /\ run.caught = "FileNotFoundError"

\* the extract flow ran with "Use JSON schema?" answered yes
SchemaAsked == run.last = "6" /\ run.called /\ run.answers.use_schema

\* C15 (as stated): the schema forwarded to firecrawl_extract is the parsed
\* input when the input is valid JSON, and the default schema both when the
\* input is empty and when it is not valid JSON.
C15_DefaultSchemaOnInvalid ==
    SchemaAsked =>
      run.schema = IF json_loads(run.answers.schema_input).ok
                   THEN json_loads(run.answers.schema_input).value
                   ELSE DefaultSchema

\* C15 (amended): the schema forwarded is the default schema when the input
\* is empty, the parsed input when it is valid JSON, and None (no schema) when
\* it is not valid JSON.
C15_NoSchemaOnInvalid ==
    SchemaAsked =>
      run.schema = IF run.answers.schema_input = <<>> THEN DefaultSchema
                   ELSE IF json_loads(run.answers.schema_input).ok
                   THEN json_loads(run.answers.schema_input).value
                   ELSE NoneV

\* C15 witness: input that is not JSON was entered and no schema was forwarded.
C15_Witness ==
    /\ SchemaAsked /\ run.answers.schema_input = <<"{", "k">>
    /\ run.schema = NoneV /\ "invalid_schema" \in run.printed
    /\ op = "firecrawl_extract" /\ requests # <<>>

C17_OneRequestInFlight ==
    \A i \in 1..Len(run.trace) :
      run.trace[i] = "send" =>
        /\ i < Len(run.trace) /\ run.trace[i + 1] \in {"recv", "abort"}
        /\ \E j \in 1..(i - 1) : run.trace[j] = "connect_end"
        /\ \A j \in 1..(i - 1) : run.trace[j] # "disconnect_begin"

\* C17 witness: debug_main made all its remote calls.
C17_Witness ==
    /\ run.entry = "debug_main" /\ run.pc = "done"
    /\ Count(run.trace, "send") = DebugScrapes + 1
    /\ Count(run.trace, "recv") = DebugScrapes + 1

\* C18: in main and in debug_main the API key being set or unset changes only
\* the warning: the run makes the same sequence of connect, remote calls and
\* disconnect as the run with the same inputs and the key the other way round.
C18_KeyGatesWarningOnly ==
    /\ run.entry = "main" =>
         run.trace = main([run.in EXCEPT !.key = ~run.in.key]).trace
    /\ run.entry = "debug_main" =>
         run.trace = debug_main([run.in EXCEPT !.key = ~run.in.key]).trace

\* the writes firecrawl_extract attempts, by file kind
WriteKinds(out) == [i \in 1..Len(out.writes) |-> out.writes[i].file]

\* firecrawl_extract writes the table only with save_as_excel, first, and the
\* same with and without save_to_file
TableFirstAndIndependent ==
    \A r \in ShellResponses, fault \in SUBSET {"mkdir", "json", "md", "table"} :
      LET both == WriteKinds(firecrawl_extract(<<MainUrls>>, TRUE, r, TRUE, TRUE, fault))
          table == WriteKinds(firecrawl_extract(<<MainUrls>>, TRUE, r, FALSE, TRUE, fault))
          file == WriteKinds(firecrawl_extract(<<MainUrls>>, TRUE, r, TRUE, FALSE, fault))
      IN  /\ \A i \in 1..Len(file) : file[i] # "xlsx"
          /\ Len(table) <= Len(both) /\ SubSeq(both, 1, Len(table)) = table
          /\ \A i \in 1..Len(table) : table[i] = "xlsx"
          /\ \A i \in (Len(table) + 1)..Len(both) : both[i] # "xlsx"

\* C19: whatever the user answers to "Save as Excel?", the shell's extract flow
\* passes no save_as_excel and no table is written; firecrawl_extract writes
\* the table only when save_as_excel is true (as main passes it), before and
\* independently of save_to_file.
C19_ExcelAnswerIgnored ==
    /\ (run.entry = "interactive" /\ op = "firecrawl_extract") =>
         (~opts.excel /\ ~Attempted("xlsx") /\ ~Attempted("csv"))
    /\ (run.entry = "main" /\ op = "firecrawl_extract" /\ Attempted("xlsx")) => opts.excel
    /\ TableFirstAndIndependent

\* C19 witness: the user asked for Excel, the extraction succeeded and was
\* saved to JSON, and no table was written.
C19_Witness ==
    /\ run.entry = "interactive" /\ run.last = "6" /\ run.called
    /\ run.answers.save /\ run.answers.excel
    /\ opts.callOk /\ Attempted("json") /\ ~Attempted("xlsx")

====
